---- MODULE Spec2Model ----
(***************************************************************************)
(* A model of cleanroom's execution engine: the RunContext (substitution   *)
(* tables, hook registry, base-context inheritance, pickling) and the      *)
(* _teardown command.  Python objects live in heaps indexed by object ids, *)
(* so that two contexts holding the same dict hold the same heap id.       *)
(***************************************************************************)
EXTENDS Integers, Sequences, FiniteSets, TLC

\* ------------------------------------------------------------------ bounds
MaxEntries == 2   \* hook entries ever registered
MaxCalls == 2     \* run_hooks calls recorded per context and hook

\* ------------------------------------------------------------------ values
None == "<None>"
Engine == "engine"                      \* the generator handle (ctx)
CtxIds == {"A", "B", "L"}               \* A: base build, B: derived build, L: loaded base
Live == {"A", "B"}                      \* contexts a build operates on
Hooks == {"_teardown", "testing"}
Timestamps == {"T1", "T2"}
UserKeys == {"EXTRA"}
Values == {"v", "w"}
SystemOf(c) == IF c = "B" THEN "derived" ELSE "base"
SystemsDir == "systems"
Elsewhere == "elsewhere"

\* ------------------------------------------------------------ dictionaries
EmptyDict == [x \in {} |-> x]
Get(d, k, default) == IF k \in DOMAIN d THEN d[k] ELSE default
Put(d, k, v) == (k :> v) @@ d
\* {**a, **b}: the right operand wins on a key collision
Merge(a, b) == b @@ a

\* --------------------------------------------------------------- commands
\* len('cleanroom.commands.')
ModulePrefixLen == 19
ModulePrefix == <<"c","l","e","a","n","r","o","o","m",".",
                  "c","o","m","m","a","n","d","s",".">>
SedFile == <<"s","e","d">>
TeardownFile == <<"_","t","e","a","r","d","o","w","n">>
\* the process-wide command singletons: object id and defining module
CommandObjs == {[oid |-> 1, module |-> ModulePrefix \o SedFile],
                [oid |-> 2, module |-> ModulePrefix \o TeardownFile]}
CommandOids == {o.oid : o \in CommandObjs}
ObjOf(oid) == CHOOSE o \in CommandObjs : o.oid = oid

\* (mutant) the slice starts one character early
name_short(o) == SubSeq(o.module, ModulePrefixLen, Len(o.module))
\* Command.name(): self.__module__[19:]
name(o) == SubSeq(o.module, ModulePrefixLen + 1, Len(o.module))

\* Parser.command(name): the singleton registered under the file's base name
RegistryNames == {SedFile, TeardownFile}
ParserCommand(n) ==
    IF n \in RegistryNames
    THEN (CHOOSE o \in CommandObjs : o.module = ModulePrefix \o n).oid
    ELSE 0

VARIABLES
    rc,        \* context id -> the RunContext object's fields
    hooksH,    \* heap of hooks dicts: id -> (hook name -> list of entries)
    subsH,     \* heap of substitutions dicts
    flagsH,    \* heap of flags dicts
    jar,       \* system -> <<>> or <<artifact>>: the pickle jars on disk
    frame,     \* the operation in progress and its position
    calls,     \* history: the run_hooks calls made per context and hook
    tlog,      \* history: the steps of the latest teardown, in order
    td,        \* history: the latest teardown's status
    checkout,  \* whether the checkout directory exists
    err,       \* the exception the last operation ended with
    cwd,       \* the process's working directory
    ret,       \* what the last operation returned, if it was a query
    nextEntry, \* ids handed to hook entries
    xlog,      \* history: the steps of the latest execute() call
    fs,        \* the staged root: path -> node
    gen,       \* history: the latest generator command and what it issued
    sshruns    \* history: the ssh_allow_login runs, in order

vars == <<rc, hooksH, subsH, flagsH, jar, frame, calls, tlog, td, checkout,
          err, cwd, ret, nextEntry, xlog, fs, gen, sshruns>>
\* the state of the dispatcher's history and of the generator commands
genvars == <<xlog, fs, gen, sshruns>>

\* The mutable object graph, threaded through the method bodies.
Mem == [rc |-> rc, hooks |-> hooksH, subs |-> subsH, flags |-> flagsH]

\* Context.fs_directory(None): the filesystem root of the system being built
CtxFsDirectory(system) == IF system = "derived" THEN "/fs/derived" ELSE "/fs/base"
fs_directory(m, c) == CtxFsDirectory(m.rc[c].system)

\* ---------------------------------------------------------- substitutions
set_substitution(m, c, key, value, local) ==
    IF local
    THEN [m EXCEPT !.rc[c].local_substitutions = Put(@, key, value)]
    ELSE [m EXCEPT !.subs[m.rc[c].substitutions] = Put(@, key, value)]

\* (mutant) the global tier is looked up first
substitution_global_first(m, c, key) ==
    Get(m.subs[m.rc[c].substitutions], key,
        Get(m.rc[c].local_substitutions, key, None))

substitution(m, c, key) ==
    Get(m.rc[c].local_substitutions, key,
        Get(m.subs[m.rc[c].substitutions], key, None))

has_substitution(m, c, key) ==
    \/ key \in DOMAIN m.rc[c].local_substitutions
    \/ key \in DOMAIN m.subs[m.rc[c].substitutions]

\* A template is a sequence of parts: a literal [lit |-> s] or a reference
\* [var |-> key].  string.Template.substitute raises KeyError on a reference
\* the mapping lacks.
\* The result is [ok |-> whether no KeyError was raised, out |-> the text].
RECURSIVE Expand(_, _)
Expand(text, mapping) ==
    IF text = <<>> THEN [ok |-> TRUE, out |-> <<>>]
    ELSE LET p == Head(text)
             rest == Expand(Tail(text), mapping)
         IN IF p.var = None
            THEN [ok |-> rest.ok, out |-> <<p.lit>> \o rest.out]
            ELSE IF p.var \in DOMAIN mapping
            THEN [ok |-> rest.ok, out |-> <<mapping[p.var]>> \o rest.out]
            ELSE [ok |-> FALSE, out |-> <<>>]

substitute(m, c, text) ==
    LET all_substitutions == Merge(m.subs[m.rc[c].substitutions],
                                   m.rc[c].local_substitutions)
    IN Expand(text, all_substitutions)

setup_substitutions(m, c) ==
    LET m1 == set_substitution(m, c, "TIMESTAMP", m.rc[c].timestamp, FALSE)
        m2 == set_substitution(m1, c, "SYSTEM", m1.rc[c].system, TRUE)
        m3 == set_substitution(m2, c, "ROOT", fs_directory(m2, c), TRUE)
    IN set_substitution(m3, c, "BASE_SYSTEM", "", TRUE)

\* ------------------------------------------------------------ construction
\* RunContext.__init__: a context owning fresh dicts (heap cells named c)
NewRunContext(m, c, system, timestamp) ==
    LET o == [ctx |-> Engine, system |-> system, base_system |-> None,
              timestamp |-> timestamp, base_context |-> None,
              hooks |-> c, hooks_that_already_ran |-> <<>>,
              substitutions |-> c, local_substitutions |-> EmptyDict,
              flags |-> c]
        m1 == [rc |-> Put(m.rc, c, o),
               hooks |-> Put(m.hooks, c, EmptyDict),
               subs |-> Put(m.subs, c, EmptyDict),
               flags |-> Put(m.flags, c, EmptyDict)]
    IN setup_substitutions(m1, c)

\* -------------------------------------------------------------------- hooks
InList(x, l) == \E i \in 1..Len(l) : l[i] = x
\* dict.setdefault(hook, [])
SetDefault(d, hook) == IF hook \in DOMAIN d THEN d ELSE Put(d, hook, <<>>)
HookList(m, c, hook) == Get(m.hooks[m.rc[c].hooks], hook, <<>>)

\* RunContext._add_hook
add_hook(m, c, hook, exec_object) ==
    LET d == SetDefault(m.hooks[m.rc[c].hooks], hook)
    IN [m EXCEPT !.hooks[m.rc[c].hooks] = [d EXCEPT ![hook] = Append(@, exec_object)]]

\* (mutant) the hook is recorded as run before its entries are executed
run_hooks_start_marks_first(m, c, hook) ==
    IF InList(hook, m.rc[c].hooks_that_already_ran)
    THEN [m |-> m, status |-> "skipped"]
    ELSE LET m1 == [m EXCEPT !.hooks[m.rc[c].hooks] = SetDefault(@, hook)]
         IN IF HookList(m1, c, hook) = <<>>
            THEN [m |-> m1, status |-> "empty"]
            ELSE [m |-> [m1 EXCEPT !.rc[c].hooks_that_already_ran =
                                       Append(@, hook)],
                  status |-> "running"]

\* (mutant) an empty hook is recorded as run
run_hooks_start_marks_empty(m, c, hook) ==
    IF InList(hook, m.rc[c].hooks_that_already_ran)
    THEN [m |-> m, status |-> "skipped"]
    ELSE LET m1 == [m EXCEPT !.hooks[m.rc[c].hooks] = SetDefault(@, hook)]
         IN IF HookList(m1, c, hook) = <<>>
            THEN [m |-> [m1 EXCEPT !.rc[c].hooks_that_already_ran =
                                       Append(@, hook)],
                  status |-> "empty"]
            ELSE [m |-> m1, status |-> "running"]

\* run_hooks up to its loop: the context afterwards and how the call goes on
run_hooks_start(m, c, hook) ==
    IF InList(hook, m.rc[c].hooks_that_already_ran)
    THEN [m |-> m, status |-> "skipped"]
    ELSE LET m1 == [m EXCEPT !.hooks[m.rc[c].hooks] = SetDefault(@, hook)]
         IN IF HookList(m1, c, hook) = <<>>
            THEN [m |-> m1, status |-> "empty"]
            ELSE [m |-> m1, status |-> "running"]

\* (mutant) the working directory is changed before the first entry only
chdir_once(current, idx) == IF idx = 1 THEN SystemsDir ELSE current

\* os.chdir(self.ctx.systems_directory()) before the entry at position idx
chdir_before_entry(current, idx) == SystemsDir

\* (mutant) the hook is not recorded as run
mark_hook_ran_forgotten(m, c, hook) == m

\* run_hooks after its loop
mark_hook_ran(m, c, hook) ==
    [m EXCEPT !.rc[c].hooks_that_already_ran = Append(@, hook)]

\* ------------------------------------------------------------- persistence
\* _RunContextPickler.persistent_id of a Command object
persistent_id(oid) == [tag |-> "Command", name |-> name(ObjOf(oid))]

\* _RunContextUnpickler.persistent_load: 0 stands for the raised error
persistent_load(pid) ==
    IF pid.tag = "Command" THEN ParserCommand(pid.name) ELSE 0

DumpEntry(e) == [id |-> e.id, cmd |-> persistent_id(e.cmd)]
LoadEntry(a) == [id |-> a.id, cmd |-> persistent_load(a.cmd)]
MapSeq(f(_), l) == [i \in 1..Len(l) |-> f(l[i])]
MapDict(f(_), d) == [k \in DOMAIN d |-> f(d[k])]
DumpList(l) == MapSeq(DumpEntry, l)
LoadList(l) == MapSeq(LoadEntry, l)

\* Pickler.dump(self): the object graph as it is when dump is called
RECURSIVE Dump(_, _)
Dump(m, c) ==
    LET o == m.rc[c]
    IN [ctx |-> o.ctx, system |-> o.system, base_system |-> o.base_system,
        timestamp |-> o.timestamp,
        base_context |-> IF o.base_context = None THEN <<>>
                         ELSE <<Dump(m, o.base_context)>>,
        hooks |-> MapDict(DumpList, m.hooks[o.hooks]),
        hooks_that_already_ran |-> o.hooks_that_already_ran,
        substitutions |-> m.subs[o.substitutions],
        local_substitutions |-> o.local_substitutions,
        flags |-> m.flags[o.flags]]

ArtifactTokens(a) ==
    UNION {{a.hooks[h][i].cmd : i \in 1..Len(a.hooks[h])} : h \in DOMAIN a.hooks}

\* (mutant) the already-ran set is left in the object that is dumped
pickle_detach_keeps_ran(m, c) == [m EXCEPT !.rc[c].ctx = None]

pickle_detach(m, c) ==
    [m EXCEPT !.rc[c].ctx = None, !.rc[c].hooks_that_already_ran = <<>>]

\* (mutant) only the handle is put back
pickle_restore_ctx_only(m, c, ctx, hooks_that_ran) ==
    [m EXCEPT !.rc[c].ctx = ctx]

pickle_restore(m, c, ctx, hooks_that_ran) ==
    [m EXCEPT !.rc[c].ctx = ctx, !.rc[c].hooks_that_already_ran = hooks_that_ran]

\* RunContext.pickle; ok: whether opening the jar and dumping succeed.
\* The result is the context afterwards and what was written to the jar.
pickle(m, c, ok) ==
    LET ctx == m.rc[c].ctx
        hooks_that_ran == m.rc[c].hooks_that_already_ran
        m1 == pickle_detach(m, c)
    IN IF ok
       THEN [m |-> pickle_restore(m1, c, ctx, hooks_that_ran),
             written |-> <<Dump(m1, c)>>]
       ELSE [m |-> m1, written |-> <<>>]

\* Unpickler.load(): whether every persistent reference resolves
LoadOK(a) == \A t \in ArtifactTokens(a) : persistent_load(t) # 0

\* Unpickler.load(): the loaded context is a new object L owning new dicts
Load(m, a) ==
    LET o == [ctx |-> a.ctx, system |-> a.system, base_system |-> a.base_system,
              timestamp |-> a.timestamp, base_context |-> None,
              hooks |-> "L", hooks_that_already_ran |-> a.hooks_that_already_ran,
              substitutions |-> "L",
              local_substitutions |-> a.local_substitutions, flags |-> "L"]
    IN [rc |-> Put(m.rc, "L", o),
        hooks |-> Put(m.hooks, "L", MapDict(LoadList, a.hooks)),
        subs |-> Put(m.subs, "L", a.substitutions),
        flags |-> Put(m.flags, "L", a.flags)]

\* (mutant) the global substitutions of the base are copied, not taken over
install_base_context_copied_substitutions(m, c, base_context) ==
    LET m1 == [m EXCEPT !.rc[c].base_context = base_context,
                        !.rc[c].timestamp = m.rc[base_context].timestamp,
                        !.rc[c].hooks = m.rc[base_context].hooks,
                        !.subs[m.rc[c].substitutions] =
                            m.subs[m.rc[base_context].substitutions],
                        !.rc[c].flags = m.rc[base_context].flags]
    IN setup_substitutions(m1, c)

\* (mutant) the hooks of the base are not taken over
install_base_context_own_hooks(m, c, base_context) ==
    LET m1 == [m EXCEPT !.rc[c].base_context = base_context,
                        !.rc[c].timestamp = m.rc[base_context].timestamp,
                        !.rc[c].substitutions = m.rc[base_context].substitutions,
                        !.rc[c].flags = m.rc[base_context].flags]
    IN setup_substitutions(m1, c)

\* RunContext._install_base_context
install_base_context(m, c, base_context) ==
    LET m1 == [m EXCEPT !.rc[c].base_context = base_context,
                        !.rc[c].timestamp = m.rc[base_context].timestamp,
                        !.rc[c].hooks = m.rc[base_context].hooks,
                        !.rc[c].substitutions = m.rc[base_context].substitutions,
                        !.rc[c].flags = m.rc[base_context].flags]
    IN setup_substitutions(m1, c)

\* ------------------------------------------------------------------ teardown
\* (mutant) the context is persisted before the testing hook runs
TeardownSteps_persist_early ==
    <<"_teardown", "pickle", "testing", "umount", "commit">>
\* (mutant) the context is persisted only after the unmount
TeardownSteps_persist_late ==
    <<"_teardown", "testing", "umount", "pickle", "commit">>

\* _TeardownCommand.__call__: the statements of its body, in order
TeardownSteps == <<"_teardown", "testing", "pickle", "umount", "commit">>

CheckoutDirectory == "checkout_directory"
SystemDirectory == "system_directory"
\* _unmount_system_directory: whether umount is invoked
unmount_wanted(isdir_checkout) == isdir_checkout
\* (mutant) the staged system directory is always committed
to_commit_system_only(isdir_checkout) == SystemDirectory

\* _store_to_ostree: the work_directory of the commit
to_commit(isdir_checkout) ==
    IF isdir_checkout THEN CheckoutDirectory ELSE SystemDirectory
\* _store_to_ostree: the ostree commit invocation
commit_invocation(m, c, isdir_checkout) ==
    [k |-> "commit", h |-> "-", e |-> 0, src |-> to_commit(isdir_checkout),
     branch |-> m.rc[c].system, subject |-> m.rc[c].timestamp,
     meta |-> m.rc[c].timestamp]
\* helper.generic.run.run: a non-zero exit status raises
run_raises(exit) == exit # 0

Ev(k, h, e) == [k |-> k, h |-> h, e |-> e, src |-> "-", branch |-> "-",
                subject |-> "-", meta |-> "-"]

\* --------------------------------------------------------------- dispatch
MaxArgs == 3      \* positional arguments passed to execute()
MaxKwargs == 1    \* keyword arguments passed to a validation helper

\* (mutant) sed accepts every call with at least two positional arguments
sed_validate_arguments_at_least(nargs) ==
    IF nargs < 2 THEN "ParseError" ELSE "ok"

\* SedCommand.validate_arguments: the exception raised, or "ok" for None
sed_validate_arguments(nargs) ==
    IF nargs # 2 THEN "ParseError" ELSE "ok"

\* Command.validate_arguments: assert(False)
Command_validate_arguments(nargs) == "AssertionError"

\* cmd.validate_arguments(self, *args): _TeardownCommand does not override
\* the method of the base class
validate_arguments(oid, nargs) ==
    IF name(ObjOf(oid)) = SedFile
    THEN sed_validate_arguments(nargs)
    ELSE Command_validate_arguments(nargs)

\* Command._validate_no_arguments: the parse errors are constructed but not
\* raised, and None is returned
validate_no_arguments(nargs, nkwargs) ==
    LET e1 == IF nargs # 0 THEN <<"does not take arguments">> ELSE <<>>
        e2 == IF nkwargs # 0 THEN <<"does not take keyword arguments">> ELSE <<>>
    IN [built |-> e1 \o e2, raised |-> <<>>, dependency |-> None]

\* cmd(self, *args): how the call binds to the command's __call__.
\* SedCommand.__call__(self, run_context, *args) binds; _TeardownCommand's
\* __call__(self, file_name, line_number, run_context, *args) needs two more
\* positional arguments, and with them takes a string for the run context.
call_binding(oid, nargs) ==
    IF name(ObjOf(oid)) = SedFile THEN "ok"
    ELSE IF 1 + nargs < 3 THEN "TypeError" ELSE "AttributeError"

\* RunContext.execute: the steps taken and the exception it ends with;
\* exit: the status of the external sed
execute(oid, nargs, exit) ==
    LET v == validate_arguments(oid, nargs)
        b == call_binding(oid, nargs)
    IN IF v # "ok"
       THEN [steps |-> <<"validate_arguments">>, err |-> v]
       ELSE IF b = "TypeError"
       THEN [steps |-> <<"validate_arguments">>, err |-> b]
       ELSE IF b = "AttributeError"
       THEN [steps |-> <<"validate_arguments", "body">>, err |-> b]
       ELSE [steps |-> <<"validate_arguments", "body">>,
             err |-> IF run_raises(exit) THEN "RunError" ELSE "none"]

NoExec == [op |-> "-", cmd |-> <<>>, nargs |-> 0, nkwargs |-> 0,
           steps |-> <<>>, built |-> <<>>]

\* ------------------------------------------------------ generator commands
\* the most commands one generator command issues (mkdir, mkdir, append,
\* chown, chmod)
MaxIssued == 5
Zones == {"UTC", "Europe/Berlin", "Invalid/Zone"}
Etc == <<"etc">>
Localtime == <<"localtime">>
EtcLocaltime == Etc \o Localtime
\* '../usr/share/zoneinfo/' + timezone
FullTimezone(timezone) == <<"..", "usr", "share", "zoneinfo", timezone>>

\* a path taken relative to base_directory, '..' steps resolved
RECURSIVE Resolve(_, _)
Resolve(base, rel) ==
    IF rel = <<>> THEN base
    ELSE IF Head(rel) = ".."
    THEN Resolve(SubSeq(base, 1, Len(base) - 1), Tail(rel))
    ELSE Resolve(Append(base, Head(rel)), Tail(rel))

Node(t, target, lines, mode, owner) ==
    [t |-> t, target |-> target, lines |-> lines, mode |-> mode, owner |-> owner]
Dir(mode, owner) == Node("dir", <<>>, <<>>, mode, owner)
File(lines) == Node("file", <<>>, lines, "0644", "root")

\* helper.generic.file: exists, isdir
exists(f, path) == path \in DOMAIN f
isdir(f, path) == path \in DOMAIN f /\ f[path].t = "dir"

\* helper.generic.user.user_data: <<>> stands for None
Passwd == [u \in {"alice"} |->
             [uid |-> "alice", gid |-> "users", home |-> <<"home", "alice">>]]
user_data(user) == IF user \in DOMAIN Passwd THEN <<Passwd[user]>> ELSE <<>>

\* helper.generic.file.read_file(keyfile, outside=True): <<>> when it raises
KeyFiles == [k \in {"id.pub"} |-> "ssh-rsa KEY"]
read_file(keyfile) == IF keyfile \in DOMAIN KeyFiles THEN <<KeyFiles[keyfile]>> ELSE <<>>

\* the effects of the commands issued through system_context.execute and of
\* the chown and chmod helpers
fs_remove(f, path) == [q \in DOMAIN f \ {path} |-> f[q]]
fs_symlink(f, target, path) == Put(f, path, Node("link", target, <<>>, "0777", "root"))
fs_mkdir(f, path, mode, owner) == Put(f, path, Dir(mode, owner))
fs_append(f, path, line) ==
    IF path \in DOMAIN f
    THEN [f EXCEPT ![path].lines = Append(@, line)]
    ELSE Put(f, path, File(<<line>>))
fs_chown(f, path, owner) ==
    IF path \in DOMAIN f THEN [f EXCEPT ![path].owner = owner] ELSE f
fs_chmod(f, path, mode) ==
    IF path \in DOMAIN f THEN [f EXCEPT ![path].mode = mode] ELSE f

Cmd(k, path, arg) == [k |-> k, path |-> path, arg |-> arg]
NoGenErr == [kind |-> "none", about |-> "-"]
\* A generator command in progress: the staged root, the commands issued so
\* far, the exception raised, and the position of the issued command that
\* raises (0: none does).
Start(f, failAt) ==
    [fs |-> f, issued |-> <<>>, err |-> NoGenErr, failAt |-> failAt]
\* one command issued: it takes effect, or raises and ends the run
Issue(s, cmd, effect) ==
    IF s.err.kind # "none" THEN s
    ELSE IF Len(s.issued) + 1 = s.failAt
    THEN [s EXCEPT !.issued = Append(@, cmd),
                   !.err = [kind |-> "CommandError", about |-> cmd.k]]
    ELSE [s EXCEPT !.issued = Append(@, cmd), !.fs = effect]
Raise(s, kind, about) ==
    IF s.err.kind # "none" THEN s
    ELSE [s EXCEPT !.err = [kind |-> kind, about |-> about]]

\* (mutant) the zoneinfo file is not looked for
set_timezone_unchecked(f, timezone, failAt) ==
    LET s0 == Start(f, failAt)
        s1 == Issue(s0, Cmd("remove", EtcLocaltime, <<>>),
                    fs_remove(s0.fs, EtcLocaltime))
    IN Issue(s1, Cmd("symlink", Resolve(Etc, Localtime), FullTimezone(timezone)),
             fs_symlink(s1.fs, FullTimezone(timezone), Resolve(Etc, Localtime)))

\* SetTimezoneCommand.__call__
set_timezone(f, timezone, failAt) ==
    LET s0 == Start(f, failAt)
    IN IF ~exists(f, Resolve(Etc, FullTimezone(timezone)))
       THEN Raise(s0, "GenerateError", timezone)
       ELSE LET s1 == Issue(s0, Cmd("remove", EtcLocaltime, <<>>),
                            fs_remove(s0.fs, EtcLocaltime))
            IN Issue(s1, Cmd("symlink", Resolve(Etc, Localtime),
                             FullTimezone(timezone)),
                     fs_symlink(s1.fs, FullTimezone(timezone),
                                Resolve(Etc, Localtime)))

\* (mutant) the directory is created whether it exists or not
check_or_create_directory_always(s, dir, mode, owner) ==
    Issue(s, Cmd("mkdir", dir, <<mode>>), fs_mkdir(s.fs, dir, mode, owner))

\* SshAllowLoginCommand._check_or_create_directory
check_or_create_directory(s, dir, mode, owner) ==
    IF s.err.kind # "none" THEN s
    ELSE IF ~exists(s.fs, dir)
    THEN Issue(s, Cmd("mkdir", dir, <<mode>>), fs_mkdir(s.fs, dir, mode, owner))
    ELSE IF ~isdir(s.fs, dir)
    THEN Raise(s, "GenerateError", "not a directory")
    ELSE s

\* the line appended to authorized_keys
KeyLine(options, key) ==
    IF options # "" THEN <<options, " ", key, "\n">> ELSE <<key, "\n">>

\* SshAllowLoginCommand.__call__
ssh_allow_login(f, user, keyfile, options, failAt) ==
    LET s0 == Start(f, failAt)
        data == user_data(user)
    IN IF data = <<>>
       THEN Raise(s0, "GenerateError", "could not find user")
       ELSE LET d == data[1]
                s1 == check_or_create_directory(s0, d.home, "0750", d.uid)
                ssh_directory == Append(d.home, ".ssh")
                s2 == check_or_create_directory(s1, ssh_directory, "0700", d.uid)
                key == read_file(keyfile)
                s3 == IF key = <<>>
                      THEN Raise(s2, "FileNotFoundError", keyfile)
                      ELSE s2
                authorized_file == Append(ssh_directory, "authorized_keys")
                line == KeyLine(options, IF key = <<>> THEN "" ELSE key[1])
                s4 == Issue(s3, Cmd("append", authorized_file, line),
                            fs_append(s3.fs, authorized_file, line))
                s5 == Issue(s4, Cmd("chown", authorized_file, <<d.uid>>),
                            fs_chown(s4.fs, authorized_file, d.uid))
            IN Issue(s5, Cmd("chmod", authorized_file, <<"0600">>),
                     fs_chmod(s5.fs, authorized_file, "0600"))

\* the staged root before the commands of the definition file run
InitialRoot ==
    (Etc :> Dir("0755", "root"))
    @@ (<<"home">> :> Dir("0755", "root"))
    @@ (<<"usr", "share", "zoneinfo", "UTC">> :> File(<<>>))
NoGen == [op |-> "-", arg |-> "-", pre |-> InitialRoot, issued |-> <<>>,
          err |-> NoGenErr]

\* ------------------------------------------------------------------- state
Systems == {"base", "derived"}
Idle == [op |-> "idle", c |-> "A", stage |-> 0, hook |-> "-", idx |-> 0]
NoRet == [op |-> "-", c |-> "A", key |-> "-", val |-> None, has |-> FALSE,
          text |-> <<>>, ok |-> TRUE, out |-> <<>>]
NoLists == [h \in Hooks |-> <<>>]
NoTd == [status |-> "none", c |-> "A", har0 |-> <<>>, isdir |-> FALSE,
         lists |-> NoLists]

SetMem(m) ==
    /\ rc' = m.rc
    /\ hooksH' = m.hooks
    /\ subsH' = m.subs
    /\ flagsH' = m.flags

Usable(c) == c \in Live /\ c \in DOMAIN rc

Init ==
    /\ LET m == NewRunContext([rc |-> EmptyDict, hooks |-> EmptyDict,
                                subs |-> EmptyDict, flags |-> EmptyDict],
                               "A", SystemOf("A"), "T1")
       IN /\ rc = m.rc
          /\ hooksH = m.hooks
          /\ subsH = m.subs
          /\ flagsH = m.flags
    /\ jar = [s \in Systems |-> <<>>]
    /\ frame = Idle
    /\ calls = [c \in Live |-> [h \in Hooks |-> <<>>]]
    /\ tlog = <<>>
    /\ td = NoTd
    /\ checkout = FALSE
    /\ err = "none"
    /\ cwd = Elsewhere
    /\ ret = NoRet
    /\ nextEntry = 1
    /\ xlog = NoExec
    /\ fs = InitialRoot
    /\ gen = NoGen
    /\ sshruns = <<>>

\* ------------------------------------------------------------ hook actions
\* add_hook(hook, command, ...) by a command of the definition file
AddHook(c, hook, oid) ==
    /\ frame.op = "idle"
    /\ Usable(c)
    /\ rc[c].ctx # None
    /\ nextEntry <= MaxEntries
    /\ SetMem(add_hook(Mem, c, hook, [id |-> nextEntry, cmd |-> oid]))
    /\ nextEntry' = nextEntry + 1
    /\ err' = "none"
    /\ UNCHANGED <<jar, frame, calls, tlog, td, checkout, cwd>>
    /\ ret' = NoRet
    /\ UNCHANGED genvars

\* The start of run_hooks(hook) on c. running: the frame inside the loop;
\* after: the frame when the call returns at once.
StartHooks(c, hook, running, after) ==
    LET r == run_hooks_start(Mem, c, hook)
    IN /\ SetMem(r.m)
       /\ calls' = [calls EXCEPT ![c][hook] =
                      Append(@, [n0 |-> Len(HookList(Mem, c, hook)),
                                 ran |-> <<>>, status |-> r.status])]
       /\ frame' = IF r.status = "running" THEN running ELSE after

TdNext ==
    IF frame.stage = Len(TeardownSteps)
    THEN Idle
    ELSE [frame EXCEPT !.stage = @ + 1, !.hook = "-", !.idx = 0]
TdStatus(f) ==
    IF td.status = "running" /\ f.op = "idle"
    THEN [td EXCEPT !.status = "done"]
    ELSE td
EntryIds(l) == [i \in 1..Len(l) |-> l[i].id]
Abort(e) ==
    /\ frame' = Idle
    /\ td' = IF frame.op = "teardown" THEN [td EXCEPT !.status = "aborted"] ELSE td
    /\ err' = e

\* run_hooks(hook) called on its own
RunHooks(c, hook) ==
    /\ frame.op = "idle"
    /\ Usable(c)
    /\ rc[c].ctx # None
    /\ Len(calls[c][hook]) < MaxCalls
    /\ StartHooks(c, hook,
                  [op |-> "run_hooks", c |-> c, stage |-> 0, hook |-> hook,
                   idx |-> 1],
                  Idle)
    /\ err' = "none"
    /\ UNCHANGED <<jar, tlog, td, checkout, cwd, nextEntry>>
    /\ ret' = NoRet
    /\ UNCHANGED genvars

\* One iteration of the loop of run_hooks: chdir, then cmd.execute(self),
\* which returns (ok) or raises, and leaves the process in the systems
\* directory or (wander) somewhere else.
HookEntry(ok, wander) ==
    /\ frame.hook # "-"
    /\ LET c == frame.c
           h == frame.hook
           command_list == HookList(Mem, c, h)
       IN /\ frame.idx <= Len(command_list)
          /\ LET at == chdir_before_entry(cwd, frame.idx)
                 ev == [e |-> command_list[frame.idx].id, cwd |-> at]
             IN /\ cwd' = IF wander THEN Elsewhere ELSE at
                /\ calls' = [calls EXCEPT
                               ![c][h][Len(calls[c][h])].ran = Append(@, ev),
                               ![c][h][Len(calls[c][h])].status =
                                   IF ok THEN @ ELSE "failed"]
                /\ tlog' = IF frame.op = "teardown"
                           THEN Append(tlog, Ev("hook", h, ev.e))
                           ELSE tlog
                /\ IF ok
                   THEN /\ frame' = [frame EXCEPT !.idx = @ + 1]
                        /\ UNCHANGED <<td, err>>
                   ELSE Abort("HookError")
    /\ UNCHANGED <<rc, hooksH, subsH, flagsH, jar, checkout, nextEntry>>
    /\ ret' = NoRet
    /\ UNCHANGED genvars

\* The end of run_hooks: the loop is over, the hook is recorded as run
RunHooksFinish ==
    /\ frame.hook # "-"
    /\ LET c == frame.c
           h == frame.hook
           after == IF frame.op = "teardown" THEN TdNext ELSE Idle
       IN /\ frame.idx > Len(HookList(Mem, c, h))
          /\ SetMem(mark_hook_ran(Mem, c, h))
          /\ calls' = [calls EXCEPT ![c][h][Len(calls[c][h])].status = "ok"]
          /\ frame' = after
          /\ td' = TdStatus(after)
    /\ UNCHANGED <<jar, tlog, checkout, err, cwd, nextEntry>>
    /\ ret' = NoRet
    /\ UNCHANGED genvars

\* -------------------------------------------------------- teardown actions
\* The _teardown command is called on c
TeardownBegin(c) ==
    /\ frame.op = "idle"
    /\ Usable(c)
    /\ rc[c].ctx # None
    /\ \A h \in Hooks : Len(calls[c][h]) < MaxCalls
    /\ frame' = [op |-> "teardown", c |-> c, stage |-> 1, hook |-> "-", idx |-> 0]
    /\ td' = [status |-> "running", c |-> c,
              har0 |-> rc[c].hooks_that_already_ran, isdir |-> checkout,
              lists |-> NoLists]
    /\ tlog' = <<>>
    /\ err' = "none"
    /\ UNCHANGED <<rc, hooksH, subsH, flagsH, jar, calls, checkout, cwd,
                   nextEntry>>
    /\ ret' = NoRet
    /\ UNCHANGED genvars

AtStep(kind) ==
    /\ frame.op = "teardown"
    /\ frame.hook = "-"
    /\ TeardownSteps[frame.stage] = kind

\* run_context.run_hooks('_teardown') / run_context.run_hooks('testing')
TdRunHooks ==
    /\ \E h \in Hooks :
         /\ AtStep(h)
         /\ StartHooks(frame.c, h, [frame EXCEPT !.hook = h, !.idx = 1], TdNext)
         /\ td' = [TdStatus(frame') EXCEPT
                     !.lists[h] = EntryIds(HookList(Mem, frame.c, h))]
    /\ UNCHANGED <<jar, tlog, checkout, err, cwd, nextEntry>>
    /\ ret' = NoRet
    /\ UNCHANGED genvars

\* run_context.pickle()
TdPickle ==
    /\ AtStep("pickle")
    /\ \E ok \in BOOLEAN :
         LET r == pickle(Mem, frame.c, ok)
         IN /\ SetMem(r.m)
            /\ tlog' = Append(tlog, Ev("pickle", "-", 0))
            /\ IF ok
               THEN /\ jar' = [jar EXCEPT ![rc[frame.c].system] = r.written]
                    /\ frame' = TdNext
                    /\ td' = TdStatus(TdNext)
                    /\ err' = err
               ELSE /\ jar' = jar
                    /\ Abort("IOError")
    /\ UNCHANGED <<calls, checkout, cwd, nextEntry>>
    /\ ret' = NoRet
    /\ UNCHANGED genvars

\* self._unmount_system_directory(run_context)
TdUmount ==
    /\ AtStep("umount")
    /\ IF unmount_wanted(checkout)
       THEN \E exit \in {0, 1} :
              /\ tlog' = Append(tlog, Ev("umount", "-", 0))
              /\ IF run_raises(exit)
                 THEN Abort("RunError")
                 ELSE /\ frame' = TdNext
                      /\ td' = TdStatus(TdNext)
                      /\ err' = err
       ELSE /\ frame' = TdNext
            /\ td' = TdStatus(TdNext)
            /\ UNCHANGED <<tlog, err>>
    /\ UNCHANGED <<rc, hooksH, subsH, flagsH, jar, calls, checkout, cwd,
                   nextEntry>>
    /\ ret' = NoRet
    /\ UNCHANGED genvars

\* self._store_to_ostree(run_context)
TdCommit ==
    /\ AtStep("commit")
    /\ \E exit \in {0, 1} :
         /\ tlog' = Append(tlog, commit_invocation(Mem, frame.c, checkout))
         /\ IF run_raises(exit)
            THEN Abort("RunError")
            ELSE /\ frame' = TdNext
                 /\ td' = TdStatus(TdNext)
                 /\ err' = err
    /\ UNCHANGED <<rc, hooksH, subsH, flagsH, jar, calls, checkout, cwd,
                   nextEntry>>
    /\ ret' = NoRet
    /\ UNCHANGED genvars

\* The build creates or removes the checkout directory between operations
SetCheckout ==
    /\ frame.op = "idle"
    /\ checkout' = ~checkout
    /\ UNCHANGED <<rc, hooksH, subsH, flagsH, jar, frame, calls, tlog, td, err,
                   cwd, nextEntry>>
    /\ ret' = NoRet
    /\ UNCHANGED genvars

\* ---------------------------------------------------- substitution actions
SetSubstitution(c, key, value, local) ==
    /\ frame.op = "idle"
    /\ Usable(c)
    /\ SetMem(set_substitution(Mem, c, key, value, local))
    /\ ret' = [NoRet EXCEPT !.op = IF local THEN "set_local" ELSE "set_global",
                            !.c = c, !.key = key, !.val = value]
    /\ err' = "none"
    /\ UNCHANGED <<jar, frame, calls, tlog, td, checkout, cwd, nextEntry>>
    /\ UNCHANGED genvars

QuerySubstitution(c, key) ==
    /\ frame.op = "idle"
    /\ Usable(c)
    /\ ret' = [NoRet EXCEPT !.op = "substitution", !.c = c, !.key = key,
                            !.val = substitution(Mem, c, key)]
    /\ err' = "none"
    /\ UNCHANGED <<rc, hooksH, subsH, flagsH, jar, frame, calls, tlog, td,
                   checkout, cwd, nextEntry>>
    /\ UNCHANGED genvars

QueryHasSubstitution(c, key) ==
    /\ frame.op = "idle"
    /\ Usable(c)
    /\ ret' = [NoRet EXCEPT !.op = "has_substitution", !.c = c, !.key = key,
                            !.has = has_substitution(Mem, c, key)]
    /\ err' = "none"
    /\ UNCHANGED <<rc, hooksH, subsH, flagsH, jar, frame, calls, tlog, td,
                   checkout, cwd, nextEntry>>
    /\ UNCHANGED genvars

QuerySubstitute(c, text) ==
    /\ frame.op = "idle"
    /\ Usable(c)
    /\ LET r == substitute(Mem, c, text)
       IN /\ ret' = [NoRet EXCEPT !.op = "substitute", !.c = c, !.text = text,
                                  !.ok = r.ok, !.out = r.out]
          /\ err' = IF r.ok THEN "none" ELSE "KeyError"
    /\ UNCHANGED <<rc, hooksH, subsH, flagsH, jar, frame, calls, tlog, td,
                   checkout, cwd, nextEntry>>
    /\ UNCHANGED genvars

\* ----------------------------------------------------- persistence actions
\* RunContext(ctx, system='derived', timestamp=ts) for the derived build
Construct(c, ts) ==
    /\ frame.op = "idle"
    /\ c \in Live
    /\ c \notin DOMAIN rc
    /\ SetMem(NewRunContext(Mem, c, SystemOf(c), ts))
    /\ err' = "none"
    /\ UNCHANGED <<jar, frame, calls, tlog, td, checkout, cwd, nextEntry>>
    /\ ret' = NoRet
    /\ UNCHANGED genvars

\* pickle() called on its own; ok: whether writing the jar succeeds
Pickle(c, ok) ==
    /\ frame.op = "idle"
    /\ Usable(c)
    /\ rc[c].ctx # None
    /\ LET r == pickle(Mem, c, ok)
       IN /\ SetMem(r.m)
          /\ jar' = IF ok THEN [jar EXCEPT ![rc[c].system] = r.written] ELSE jar
          /\ err' = IF ok THEN "none" ELSE "IOError"
          /\ ret' = [NoRet EXCEPT !.op = "pickle", !.c = c, !.ok = ok]
    /\ UNCHANGED <<frame, calls, tlog, td, checkout, cwd, nextEntry>>
    /\ UNCHANGED genvars

\* unpickle_base_context(system)
UnpickleBaseContext(c, system) ==
    /\ frame.op = "idle"
    /\ Usable(c)
    /\ rc[c].ctx # None
    /\ IF jar[system] = <<>>
       THEN /\ err' = "FileNotFoundError"
            /\ UNCHANGED <<rc, hooksH, subsH, flagsH>>
       ELSE LET a == jar[system][1]
            IN IF LoadOK(a)
               THEN /\ SetMem(install_base_context(Load(Mem, a), c, "L"))
                    /\ err' = "none"
               ELSE /\ err' = "UnpicklingError"
                    /\ UNCHANGED <<rc, hooksH, subsH, flagsH>>
    /\ ret' = [NoRet EXCEPT !.op = "unpickle_base_context", !.c = c,
                            !.key = system, !.ok = (err' = "none")]
    /\ UNCHANGED <<jar, frame, calls, tlog, td, checkout, cwd, nextEntry>>
    /\ UNCHANGED genvars

\* The artifact of a system is damaged on disk: one reference token of it
\* no longer carries the tag the pickler wrote.
Tamper(system) ==
    /\ frame.op = "idle"
    /\ jar[system] # <<>>
    /\ \A t \in ArtifactTokens(jar[system][1]) : t.tag = "Command"
    /\ \E h \in DOMAIN jar[system][1].hooks :
         \E i \in 1..Len(jar[system][1].hooks[h]) :
           /\ jar[system][1].hooks[h][i].cmd.tag = "Command"
           /\ jar' = [jar EXCEPT ![system][1].hooks[h][i].cmd.tag = "Blob"]
    /\ UNCHANGED <<rc, hooksH, subsH, flagsH, frame, calls, tlog, td, checkout,
                   err, cwd, nextEntry>>
    /\ ret' = NoRet
    /\ UNCHANGED genvars

\* -------------------------------------------------------- dispatch actions
\* execute(command, *args) on c; n: the command's name, exit: the status of
\* the external program the body runs
Execute(c, n, nargs, exit) ==
    /\ frame.op = "idle"
    /\ Usable(c)
    /\ rc[c].ctx # None
    /\ n \in RegistryNames
    /\ LET r == execute(ParserCommand(n), nargs, exit)
       IN /\ xlog' = [NoExec EXCEPT !.op = "execute", !.cmd = n,
                                    !.nargs = nargs, !.steps = r.steps]
          /\ err' = r.err
    /\ ret' = [NoRet EXCEPT !.op = "execute", !.c = c]
    /\ UNCHANGED <<rc, hooksH, subsH, flagsH, jar, frame, calls, tlog, td,
                   checkout, cwd, nextEntry, fs, gen, sshruns>>

\* cmd._validate_no_arguments(run_context, *args, **kwargs) of command n
ValidateNoArguments(c, n, nargs, nkwargs) ==
    /\ frame.op = "idle"
    /\ Usable(c)
    /\ n \in RegistryNames
    /\ LET r == validate_no_arguments(nargs, nkwargs)
       IN /\ xlog' = [NoExec EXCEPT !.op = "_validate_no_arguments", !.cmd = n,
                                    !.nargs = nargs, !.nkwargs = nkwargs,
                                    !.built = r.built]
          /\ err' = IF r.raised # <<>> THEN "ParseError" ELSE "none"
          /\ ret' = [NoRet EXCEPT !.op = "_validate_no_arguments", !.c = c,
                                  !.val = r.dependency]
    /\ UNCHANGED <<rc, hooksH, subsH, flagsH, jar, frame, calls, tlog, td,
                   checkout, cwd, nextEntry, fs, gen, sshruns>>

\* run_context.flags[key] = value, by a command of the definition file
SetFlag(c, key, value) ==
    /\ frame.op = "idle"
    /\ c \in DOMAIN rc
    /\ flagsH' = [flagsH EXCEPT ![rc[c].flags] = Put(@, key, value)]
    /\ err' = "none"
    /\ ret' = [NoRet EXCEPT !.op = "set_flag", !.c = c, !.key = key]
    /\ UNCHANGED <<rc, hooksH, subsH, jar, frame, calls, tlog, td, checkout,
                   cwd, nextEntry>>
    /\ UNCHANGED genvars

\* whether c is built on an installed base context
Derived(c) == c \in DOMAIN rc /\ rc[c].base_context # None

\* self.base_context.set_substitution(key, value, local) by a command run
\* on c
SetThroughBase(c, key, value, local) ==
    /\ frame.op = "idle"
    /\ Usable(c)
    /\ Derived(c)
    /\ SetMem(set_substitution(Mem, rc[c].base_context, key, value, local))
    /\ ret' = [NoRet EXCEPT !.op = IF local THEN "base_set_local"
                                   ELSE "base_set_global",
                            !.c = c, !.key = key, !.val = value]
    /\ err' = "none"
    /\ UNCHANGED <<jar, frame, calls, tlog, td, checkout, cwd, nextEntry>>
    /\ UNCHANGED genvars

\* ------------------------------------------------------- generator actions
GenRecord(op, arg, r) ==
    [op |-> op, arg |-> arg, pre |-> fs, issued |-> r.issued, err |-> r.err]

\* set_timezone <timezone>
SetTimezone(timezone, failAt) ==
    /\ frame.op = "idle"
    /\ LET r == set_timezone(fs, timezone, failAt)
       IN /\ fs' = r.fs
          /\ gen' = GenRecord("set_timezone", timezone, r)
          /\ err' = r.err.kind
    /\ ret' = [NoRet EXCEPT !.op = "set_timezone"]
    /\ UNCHANGED <<rc, hooksH, subsH, flagsH, jar, frame, calls, tlog, td,
                   checkout, cwd, nextEntry, xlog, sshruns>>

\* ssh_allow_login <user> <keyfile> options=<options>
SshAllowLogin(user, keyfile, options, failAt) ==
    /\ frame.op = "idle"
    /\ Len(sshruns) < MaxCalls
    /\ LET r == ssh_allow_login(fs, user, keyfile, options, failAt)
       IN /\ fs' = r.fs
          /\ gen' = GenRecord("ssh_allow_login", user, r)
          /\ sshruns' = Append(sshruns, [GenRecord("ssh_allow_login", user, r)
                                           EXCEPT !.arg = <<user, keyfile, options>>])
          /\ err' = r.err.kind
    /\ ret' = [NoRet EXCEPT !.op = "ssh_allow_login"]
    /\ UNCHANGED <<rc, hooksH, subsH, flagsH, jar, frame, calls, tlog, td,
                   checkout, cwd, nextEntry, xlog>>

\* An earlier command of the definition file installs a zoneinfo file
InstallZone(timezone) ==
    /\ frame.op = "idle"
    /\ ~exists(fs, Resolve(Etc, FullTimezone(timezone)))
    /\ fs' = Put(fs, Resolve(Etc, FullTimezone(timezone)), File(<<>>))
    /\ ret' = NoRet
    /\ UNCHANGED <<rc, hooksH, subsH, flagsH, jar, frame, calls, tlog, td,
                   checkout, err, cwd, nextEntry, xlog, gen, sshruns>>

\* An earlier command of the definition file leaves a regular file at path
Obstruct(path) ==
    /\ frame.op = "idle"
    /\ ~exists(fs, path)
    /\ isdir(fs, SubSeq(path, 1, Len(path) - 1))
    /\ fs' = Put(fs, path, File(<<>>))
    /\ ret' = NoRet
    /\ UNCHANGED <<rc, hooksH, subsH, flagsH, jar, frame, calls, tlog, td,
                   checkout, err, cwd, nextEntry, xlog, gen, sshruns>>

NextTeardown ==
    \/ \E h \in Hooks : AddHook("A", h, 1)
    \/ \E h \in Hooks : RunHooks("A", h)
    \/ \E ok \in BOOLEAN : HookEntry(ok, FALSE)
    \/ RunHooksFinish
    \/ TeardownBegin("A")
    \/ TdRunHooks
    \/ TdPickle
    \/ TdUmount
    \/ TdCommit
    \/ SetCheckout

\* The finalize/commit protocol of one build
SpecTeardown == Init /\ [][NextTeardown]_vars

NextHooks ==
    \/ \E h \in Hooks : AddHook("A", h, 1)
    \/ \E h \in Hooks : RunHooks("A", h)
    \/ \E ok, wander \in BOOLEAN : HookEntry(ok, wander)
    \/ RunHooksFinish

\* The hook registry of one context
SpecHooks == Init /\ [][NextHooks]_vars

NextPersist ==
    \/ \E h \in Hooks, oid \in CommandOids : AddHook("A", h, oid)
    \/ RunHooks("A", "testing")
    \/ HookEntry(TRUE, FALSE)
    \/ RunHooksFinish
    \/ \E ok \in BOOLEAN : Pickle("A", ok)
    \/ Tamper("base")
    \/ \E ts \in Timestamps : Construct("B", ts)
    \/ UnpickleBaseContext("B", "base")

\* A base build persisted and installed as the base of a derived build
SpecPersist == Init /\ [][NextPersist]_vars

QueryKeys == {"EXTRA", "SYSTEM", "TIMESTAMP", "MISSING"}
Lit(x) == [lit |-> x, var |-> None]
Var(k) == [lit |-> "", var |-> k]
Templates == {<<Var("SYSTEM"), Lit("-"), Var("EXTRA")>>,
              <<Lit("x"), Var("TIMESTAMP")>>,
              <<Var("MISSING")>>}

NextSubst ==
    \/ \E c \in Live, k \in UserKeys, v \in Values, local \in BOOLEAN :
         SetSubstitution(c, k, v, local)
    \/ \E c \in Live, k \in QueryKeys : QuerySubstitution(c, k)
    \/ \E c \in Live, k \in QueryKeys : QueryHasSubstitution(c, k)
    \/ \E c \in Live, text \in Templates : QuerySubstitute(c, text)
    \/ Pickle("A", TRUE)
    \/ Construct("B", "T2")
    \/ UnpickleBaseContext("B", "base")

\* The two-tier substitution table of a base and a derived context
SpecSubst == Init /\ [][NextSubst]_vars

NextInstall ==
    \/ \E h \in Hooks : AddHook("A", h, 1)
    \/ \E v \in Values, local \in BOOLEAN :
         SetSubstitution("A", "EXTRA", v, local)
    \/ Pickle("A", TRUE)
    \/ \E ts \in Timestamps : Construct("B", ts)
    \/ UnpickleBaseContext("B", "base")

\* A derived context built on the persisted context of a base build
SpecInstall == Init /\ [][NextInstall]_vars

NextExecute ==
    \/ \E h \in Hooks : AddHook("A", h, 1)
    \/ \E v \in Values, local \in BOOLEAN :
         SetSubstitution("A", "EXTRA", v, local)
    \/ \E v \in Values : SetFlag("A", "EXTRA", v)
    \/ \E n \in RegistryNames, nargs \in 0..MaxArgs, exit \in {0, 1} :
         Execute("A", n, nargs, exit)
    \/ \E n \in RegistryNames, nargs \in 0..MaxArgs, nkwargs \in 0..MaxKwargs :
         ValidateNoArguments("A", n, nargs, nkwargs)

\* The dispatcher: commands of a definition file executed on a context
SpecExecute == Init /\ [][NextExecute]_vars

Users == {"alice", "ghost"}
Keyfiles == {"id.pub", "lost.pub"}
Options == {"", "no-pty"}
HomeOf(user) == Passwd[user].home
SshOf(user) == Append(HomeOf(user), ".ssh")
AuthorizedOf(user) == Append(SshOf(user), "authorized_keys")

NextTimezone ==
    \/ \E tz \in Zones, failAt \in 0..2 : SetTimezone(tz, failAt)
    \/ \E tz \in Zones : InstallZone(tz)
    \/ Obstruct(EtcLocaltime)

\* set_timezone run on the staged root of one system
SpecTimezone == Init /\ [][NextTimezone]_vars

NextSsh ==
    \/ \E u \in Users, k \in Keyfiles, o \in Options, failAt \in 0..MaxIssued :
         SshAllowLogin(u, k, o, failAt)
    \/ \E p \in {HomeOf("alice"), SshOf("alice")} : Obstruct(p)

\* ssh_allow_login run on the staged root of one system
SpecSsh == Init /\ [][NextSsh]_vars

\* whether the base build is still under way: no derived build has begun
BaseBuilding == "B" \notin DOMAIN rc

NextReplay ==
    \/ BaseBuilding /\ AddHook("A", "testing", 1)
    \/ BaseBuilding /\ TeardownBegin("A")
    \/ TdRunHooks
    \/ \E ok \in BOOLEAN : HookEntry(ok, FALSE)
    \/ RunHooksFinish
    \/ TdPickle
    \/ TdUmount
    \/ TdCommit
    \/ td.status = "done" /\ Construct("B", "T2")
    \/ UnpickleBaseContext("B", "base")
    \/ Derived("B") /\ AddHook("B", "testing", 1)
    \/ Derived("B") /\ RunHooks("B", "testing")

\* A base build torn down, then a derived build that installs its persisted
\* context and registers and runs hooks
SpecReplay == Init /\ [][NextReplay]_vars

NextShared ==
    \/ BaseBuilding /\ AddHook("A", "testing", 1)
    \/ BaseBuilding /\ Pickle("A", TRUE)
    \/ jar["base"] # <<>> /\ Construct("B", "T2")
    \/ UnpickleBaseContext("B", "base")
    \/ \E h \in Hooks : Derived("B") /\ AddHook("B", h, 1)
    \/ Derived("B") /\ RunHooks("B", "testing")
    \/ HookEntry(TRUE, FALSE)
    \/ RunHooksFinish
    \/ \E v \in Values, local \in BOOLEAN :
         Derived("B") /\ SetSubstitution("B", "EXTRA", v, local)
    \/ \E local \in BOOLEAN : SetThroughBase("B", "EXTRA", "w", local)
    \/ \E c \in {"B", "L"} : Derived("B") /\ SetFlag(c, "EXTRA", "v")

\* A derived context and its installed base operating on their tables
SpecShared == Init /\ [][NextShared]_vars

\* ================================================================== claims
CountKind(l, k) == Cardinality({i \in 1..Len(l) : l[i].k = k})
Rank(ev) ==
    CASE ev.k = "hook" /\ ev.h = "_teardown" -> 1
      [] ev.k = "hook" /\ ev.h = "testing" -> 2
      [] ev.k = "pickle" -> 3
      [] ev.k = "umount" -> 4
      [] ev.k = "commit" -> 5
HookEvents(h) == SelectSeq(tlog, LAMBDA ev : ev.k = "hook" /\ ev.h = h)
EventIds(l) == [i \in 1..Len(l) |-> l[i].e]

\* C1: every teardown performs its steps in the fixed order: the entries of
\* hook _teardown, then those of hook testing, then the persist, then the
\* unmount (only if the checkout directory exists), then the commit; each
\* step is over before the next begins, the persist, unmount and commit
\* happen at most once, and a teardown that completes has run every entry
\* of both hooks (unless the hook had already run on the context), persisted
\* and committed.
C1_TeardownOrder ==
    /\ \A i, j \in 1..Len(tlog) :
         i < j => /\ Rank(tlog[i]) <= Rank(tlog[j])
                  /\ Rank(tlog[i]) >= 3 => Rank(tlog[i]) < Rank(tlog[j])
    /\ (td.status = "running" /\ \E i \in 1..Len(tlog) : Rank(tlog[i]) >= 3)
         => frame.hook = "-"
    /\ (\E i \in 1..Len(tlog) : tlog[i].k = "umount") => td.isdir
    /\ td.status = "done" =>
         /\ CountKind(tlog, "pickle") = 1
         /\ CountKind(tlog, "commit") = 1
         /\ CountKind(tlog, "umount") = IF td.isdir THEN 1 ELSE 0
         /\ tlog[Len(tlog)].k = "commit"
         /\ \A h \in Hooks :
              EventIds(HookEvents(h)) =
                 IF InList(h, td.har0) THEN <<>>
                 ELSE td.lists[h]

C1_Witness ==
    /\ td.status = "done"
    /\ Len(tlog) = 5
    /\ tlog[1].k = "hook" /\ tlog[1].h = "_teardown"
    /\ tlog[2].k = "hook" /\ tlog[2].h = "testing"
    /\ tlog[4].k = "umount"

\* ---- the hook registry
Ran(c, h, k) == calls[c][h][k].ran
\* how often the entry with this id was executed by run_hooks(h) calls on c
Executions(c, h, id) ==
    Cardinality({<<k, i>> \in (1..Len(calls[c][h])) \X (1..MaxEntries + 1) :
                    i <= Len(Ran(c, h, k)) /\ Ran(c, h, k)[i].e = id})
\* the entries registered under h before the first run_hooks(h) on c
RegisteredBeforeFirstRun(c, h) ==
    {HookList(Mem, c, h)[i].id : i \in 1..calls[c][h][1].n0}

\* C2 (as claimed): when run_hooks(H) is called two or more times on a
\* context, each entry registered under H before the first call is executed
\* at most once, and the second and later calls execute nothing.
C2_Original ==
    \A c \in Live, h \in Hooks :
      Len(calls[c][h]) >= 2 =>
        /\ \A id \in RegisteredBeforeFirstRun(c, h) : Executions(c, h, id) <= 1
        /\ \A k \in 2..Len(calls[c][h]) : Ran(c, h, k) = <<>>

\* C2 (amended): once a run_hooks(H) call has found at least one entry and
\* completed without error, every later run_hooks(H) on that context is
\* skipped and executes nothing; if that call was the first one, every entry
\* registered before it has been executed exactly once.
C2_RunOnce ==
    \A c \in Live, h \in Hooks :
      \A k \in 1..Len(calls[c][h]) :
        calls[c][h][k].status = "ok" =>
          /\ InList(h, rc[c].hooks_that_already_ran)
          /\ \A j \in (k + 1)..Len(calls[c][h]) :
               calls[c][h][j].status = "skipped" /\ Ran(c, h, j) = <<>>
          /\ k = 1 => \A id \in RegisteredBeforeFirstRun(c, h) :
                        Executions(c, h, id) = 1

C2_Witness ==
    \E c \in Live, h \in Hooks :
      /\ Len(calls[c][h]) >= 2
      /\ calls[c][h][1].status = "ok"
      /\ Len(Ran(c, h, 1)) >= 1
      /\ calls[c][h][2].status = "skipped"

\* C3 (as claimed): run_hooks(H) on a hook without entries executes nothing
\* but adds H to the already-ran set, so that no later run_hooks(H) on the
\* context executes an entry registered afterwards.
C3_Original ==
    \A c \in Live, h \in Hooks :
      \A k \in 1..Len(calls[c][h]) :
        calls[c][h][k].status = "empty" =>
          /\ Ran(c, h, k) = <<>>
          /\ InList(h, rc[c].hooks_that_already_ran)
          /\ \A j \in (k + 1)..Len(calls[c][h]) : Ran(c, h, j) = <<>>

\* C3 (amended): run_hooks(H) on a hook without entries executes nothing
\* and does not add H to the already-ran set (it only leaves an empty list
\* under H); the next run_hooks(H) on the context is not skipped: it
\* executes the entries registered in between.
C3_EmptyRunNotMarked ==
    \A c \in Live, h \in Hooks :
      \A k \in 1..Len(calls[c][h]) :
        calls[c][h][k].status = "empty" =>
          /\ Ran(c, h, k) = <<>>
          /\ calls[c][h][k].n0 = 0
          /\ h \in DOMAIN hooksH[rc[c].hooks]
          /\ k = Len(calls[c][h]) => ~InList(h, rc[c].hooks_that_already_ran)
          /\ k < Len(calls[c][h]) =>
               LET next == calls[c][h][k + 1]
               IN /\ next.status # "skipped"
                  /\ next.n0 > 0 => next.status \in {"running", "ok", "failed"}
                  /\ next.status = "ok" =>
                       EventIds(next.ran) =
                         SubSeq(EntryIds(HookList(Mem, c, h)), 1, next.n0)

C3_Witness ==
    \E c \in Live, h \in Hooks :
      /\ Len(calls[c][h]) >= 2
      /\ calls[c][h][1].status = "empty"
      /\ calls[c][h][2].status = "ok"
      /\ Len(Ran(c, h, 2)) >= 1

\* ---- teardown failures
\* C4: when the unmount or the commit of a teardown exits non-zero, the
\* teardown is over at that invocation: nothing follows it in the teardown's
\* steps (no commit after a failed unmount, no second attempt), and the
\* artifact of the system is the one the persist step wrote.
C4_ExternalFailureAborts ==
    (td.status = "aborted" /\ err = "RunError") =>
      /\ frame = Idle
      /\ Len(tlog) >= 2
      /\ tlog[Len(tlog)].k \in {"umount", "commit"}
      /\ CountKind(tlog, tlog[Len(tlog)].k) = 1
      /\ tlog[Len(tlog)].k = "umount" => CountKind(tlog, "commit") = 0
      /\ CountKind(tlog, "pickle") = 1
      /\ jar[rc[td.c].system] = <<Dump(pickle_detach(Mem, td.c), td.c)>>

C4_Witness ==
    /\ td.status = "aborted"
    /\ err = "RunError"
    /\ tlog[Len(tlog)].k = "umount"
    /\ jar[rc[td.c].system] # <<>>

\* C5: a teardown that completes has issued exactly one commit, from the
\* checkout directory if that directory exists and from the staged system
\* directory otherwise, with branch = the system name and subject and
\* timestamp metadata = the context's timestamp; the unmount was issued if
\* and only if the checkout directory exists.  No teardown issues a second
\* commit or a commit with other arguments.
C5_CommitSource ==
    /\ CountKind(tlog, "commit") <= 1
    /\ \A i \in 1..Len(tlog) :
         tlog[i].k = "commit" =>
           /\ tlog[i].src = IF td.isdir THEN CheckoutDirectory
                            ELSE SystemDirectory
           /\ tlog[i].branch = rc[td.c].system
           /\ tlog[i].subject = rc[td.c].timestamp
           /\ tlog[i].meta = rc[td.c].timestamp
           /\ CountKind(tlog, "umount") = IF td.isdir THEN 1 ELSE 0
    /\ td.status = "done" => CountKind(tlog, "commit") = 1

C5_Witness ==
    /\ td.status = "done"
    /\ td.isdir
    /\ CountKind(tlog, "umount") = 1
    /\ tlog[Len(tlog)].k = "commit"
    /\ tlog[Len(tlog)].src = CheckoutDirectory

\* ---- base-context installation
JustInstalled == ret.op = "unpickle_base_context" /\ ret.ok

\* C6: right after a base context is installed into the context built for
\* system "derived", the derived context has the base's hooks (each entry of
\* the persisted base is an entry of it), the base's timestamp (also as its
\* TIMESTAMP substitution), the base's flags and global substitutions, while
\* its SYSTEM is "derived" and its ROOT the root of the derived system, not
\* the values of the base.
C6_InstallBase ==
    JustInstalled =>
      LET b == rc[ret.c]
          l == rc[b.base_context]
          a == jar[ret.key][1]
      IN /\ b.base_context # None
         /\ b.hooks = l.hooks
         /\ \A h \in DOMAIN a.hooks :
              EntryIds(HookList(Mem, ret.c, h)) = EntryIds(a.hooks[h])
         /\ b.timestamp = a.timestamp
         /\ b.timestamp = l.timestamp
         /\ substitution(Mem, ret.c, "TIMESTAMP") = a.timestamp
         /\ b.flags = l.flags
         /\ flagsH[b.flags] = a.flags
         /\ b.substitutions = l.substitutions
         /\ \A k \in DOMAIN a.substitutions :
              subsH[b.substitutions][k] = a.substitutions[k]
         /\ substitution(Mem, ret.c, "SYSTEM") = "derived"
         /\ substitution(Mem, ret.c, "ROOT") = CtxFsDirectory("derived")
         /\ substitution(Mem, ret.c, "SYSTEM") # a.local_substitutions["SYSTEM"]
         /\ substitution(Mem, ret.c, "ROOT") # a.local_substitutions["ROOT"]

C6_Witness ==
    /\ JustInstalled
    /\ ret.c = "B"
    /\ rc["B"].timestamp = "T1"
    /\ subsH["B"]["TIMESTAMP"] = "T2"
    /\ "EXTRA" \in DOMAIN subsH[rc["B"].substitutions]
    /\ Len(HookList(Mem, "B", "_teardown")) >= 1

\* C7 (as claimed): in every state of a context its BASE_SYSTEM substitution
\* is the empty string exactly when no base context is installed; with a
\* base installed it is non-empty and names the base system, which is also
\* recorded as base_system.
C7_Original ==
    \A c \in Live \cap DOMAIN rc :
      /\ (substitution(Mem, c, "BASE_SYSTEM") = "")
           <=> (rc[c].base_context = None)
      /\ rc[c].base_context # None =>
           /\ rc[c].base_system = rc[rc[c].base_context].system
           /\ substitution(Mem, c, "BASE_SYSTEM") = rc[rc[c].base_context].system

\* ---- substitutions
Tier(c, local) ==
    IF local THEN rc[c].local_substitutions ELSE subsH[rc[c].substitutions]
Lookup(c, key) ==
    IF key \in DOMAIN Tier(c, TRUE) THEN Tier(c, TRUE)[key]
    ELSE IF key \in DOMAIN Tier(c, FALSE) THEN Tier(c, FALSE)[key]
    ELSE None

C8_Queries ==
    /\ ret.op = "substitution" => ret.val = Lookup(ret.c, ret.key)
    /\ ret.op = "has_substitution" =>
         (ret.has <=> substitution(Mem, ret.c, ret.key) # None)
    /\ ret.op = "substitute" =>
         /\ ret.ok <=> \A i \in 1..Len(ret.text) :
                         ret.text[i].var # None =>
                           Lookup(ret.c, ret.text[i].var) # None
         /\ ret.ok =>
              /\ Len(ret.out) = Len(ret.text)
              /\ \A i \in 1..Len(ret.text) :
                   ret.out[i] = IF ret.text[i].var = None THEN ret.text[i].lit
                                ELSE Lookup(ret.c, ret.text[i].var)

\* C8: substitution(K) is the local value if K is set locally, else the
\* global value if set globally, else undefined; has_substitution(K) holds
\* exactly when substitution(K) is defined; substitute(text) replaces each
\* reference by the same lookup (local wins); and set_substitution with
\* local=True changes no global tier: neither the context's own nor its
\* base's.
C8_Substitutions ==
    /\ []C8_Queries
    /\ [][ret'.op = "set_local" =>
            /\ subsH' = subsH
            /\ rc'[ret'.c].local_substitutions[ret'.key] = ret'.val]_vars

C8_Witness ==
    /\ ret.op = "substitution"
    /\ ret.c = "B"
    /\ rc["B"].base_context = "L"
    /\ ret.key = "EXTRA"
    /\ "EXTRA" \in DOMAIN Tier("B", TRUE)
    /\ "EXTRA" \in DOMAIN Tier("B", FALSE)
    /\ Tier("B", TRUE)["EXTRA"] # Tier("B", FALSE)["EXTRA"]
    /\ ret.val = Tier("B", TRUE)["EXTRA"]

\* ---- persistence
Intact(a) == \A t \in ArtifactTokens(a) : t.tag = "Command"

C9_Load ==
    (ret.op = "unpickle_base_context" /\ jar[ret.key] # <<>>) =>
      LET a == jar[ret.key][1]
      IN /\ ret.ok <=> Intact(a)
         /\ ~Intact(a) => err = "UnpicklingError"
         /\ ret.ok =>
              \A h \in DOMAIN a.hooks :
                /\ Len(hooksH["L"][h]) = Len(a.hooks[h])
                /\ \A i \in 1..Len(a.hooks[h]) :
                     LET saved == HookList(Mem, "A", h)[i]
                         loaded == hooksH["L"][h][i]
                     IN /\ saved.id = a.hooks[h][i].id
                        /\ loaded.id = saved.id
                        /\ loaded.cmd = saved.cmd
                        /\ loaded.cmd = ParserCommand(a.hooks[h][i].cmd.name)

\* C9: a hook entry bound to a command of the registry, saved and loaded,
\* is bound to the very command object the registry returns for that name;
\* an artifact holding a reference token whose tag is not "Command" makes
\* the load fail with an unpickling error, and no context is installed.
C9_RoundTrip ==
    /\ []C9_Load
    /\ [][(ret'.op = "unpickle_base_context" /\ ~ret'.ok) =>
            UNCHANGED <<rc, hooksH, subsH, flagsH>>]_vars

C9_Witness ==
    /\ JustInstalled
    /\ \E h1, h2 \in DOMAIN hooksH["L"] :
         /\ \E i \in 1..Len(hooksH["L"][h1]) : hooksH["L"][h1][i].cmd = 1
         /\ \E i \in 1..Len(hooksH["L"][h2]) : hooksH["L"][h2][i].cmd = 2

\* C10: a pickle() that returns has written an artifact without the engine
\* handle and with an empty already-ran set, and has left the live context
\* as it was: ctx, hooks_that_already_ran, hooks, substitutions, local
\* substitutions, flags, system and timestamp.
C10_PickleFrame ==
    [][(ret'.op = "pickle" /\ ret'.ok) =>
         LET c == ret'.c
             written == jar'[rc[c].system]
         IN /\ rc' = rc
            /\ hooksH' = hooksH
            /\ subsH' = subsH
            /\ flagsH' = flagsH
            /\ written # <<>>
            /\ written[1].ctx = None
            /\ written[1].hooks_that_already_ran = <<>>
            /\ written[1].system = rc[c].system
            /\ written[1].timestamp = rc[c].timestamp
            /\ written[1].substitutions = subsH[rc[c].substitutions]
            /\ written[1].local_substitutions = rc[c].local_substitutions
            /\ \A h \in DOMAIN hooksH[rc[c].hooks] :
                 EntryIds(written[1].hooks[h]) = EntryIds(HookList(Mem, c, h))]_vars

C10_Witness ==
    /\ ret.op = "pickle"
    /\ ret.ok
    /\ rc[ret.c].ctx = Engine
    /\ rc[ret.c].hooks_that_already_ran = <<"testing">>
    /\ jar[rc[ret.c].system] # <<>>
    /\ jar[rc[ret.c].system][1].hooks_that_already_ran = <<>>
    /\ jar[rc[ret.c].system][1].ctx = None

\* ---- dispatch
\* the declared contracts: sed <PATTERN> <FILE>; _teardown takes nothing
ShapeMismatch(cmd, nargs) == IF cmd = SedFile THEN nargs # 2 ELSE nargs # 0

\* C11: every execute(command, args) calls validate_arguments first and the
\* command body only after it; when the arguments do not have the shape the
\* command declares (sed with other than 2 positional arguments), the call
\* ends with an error (a parse error for sed), the body is not invoked and
\* the context's hooks, substitutions, flags and already-ran set are as
\* before.
C11_ValidateFirst ==
    [][ret'.op = "execute" =>
         /\ Len(xlog'.steps) \in {1, 2}
         /\ xlog'.steps[1] = "validate_arguments"
         /\ Len(xlog'.steps) = 2 => xlog'.steps[2] = "body"
         /\ ShapeMismatch(xlog'.cmd, xlog'.nargs) =>
              /\ ~InList("body", xlog'.steps)
              /\ err' # "none"
              /\ xlog'.cmd = SedFile => err' = "ParseError"
              /\ UNCHANGED <<rc, hooksH, subsH, flagsH>>]_vars

C11_Witness ==
    /\ ret.op = "execute"
    /\ xlog.cmd = SedFile
    /\ xlog.nargs = 3
    /\ xlog.steps = <<"validate_arguments">>
    /\ err = "ParseError"
    /\ Len(HookList(Mem, "A", "testing")) >= 1
    /\ "EXTRA" \in DOMAIN flagsH[rc["A"].flags]

\* C12 (as claimed): _validate_no_arguments raises a parse error exactly
\* when at least one positional or one keyword argument is supplied, and
\* returns None when both are empty.
C12_Original ==
    ret.op = "_validate_no_arguments" =>
      /\ (err = "ParseError") <=> (xlog.nargs > 0 \/ xlog.nkwargs > 0)
      /\ (xlog.nargs = 0 /\ xlog.nkwargs = 0) => (err = "none" /\ ret.val = None)

\* C13 (as claimed): execute('_teardown') without arguments passes the
\* validation and enters the body of the command; it does not end in an
\* assertion error or in an error of the call itself.
C13_Original ==
    (ret.op = "execute" /\ xlog.cmd = TeardownFile /\ xlog.nargs = 0) =>
      /\ err \notin {"AssertionError", "TypeError", "AttributeError"}
      /\ xlog.steps = <<"validate_arguments", "body">>

\* ---- generator commands
Kinds(issued) == [i \in 1..Len(issued) |-> issued[i].k]
ZoneFile(timezone) == <<"usr", "share", "zoneinfo", timezone>>

\* C14: set_timezone with a timezone whose zoneinfo file is not in the
\* staged root ends with a Generate error naming the timezone, issues
\* neither remove nor symlink and leaves the staged root (so /etc/localtime)
\* as it was; with the file present, the first command issued is the remove
\* of /etc/localtime and the symlink is issued only after it, and a run that
\* completes leaves /etc/localtime a link to the timezone.
C14_SetTimezone ==
    ret.op = "set_timezone" =>
      /\ ~exists(gen.pre, ZoneFile(gen.arg)) =>
           /\ err = "GenerateError"
           /\ gen.err.about = gen.arg
           /\ gen.issued = <<>>
           /\ fs = gen.pre
      /\ exists(gen.pre, ZoneFile(gen.arg)) =>
           /\ Len(gen.issued) \in {1, 2}
           /\ gen.issued[1] = Cmd("remove", EtcLocaltime, <<>>)
           /\ Len(gen.issued) = 2 => gen.issued[2].k = "symlink"
           /\ err = "none" =>
                /\ Kinds(gen.issued) = <<"remove", "symlink">>
                /\ fs[EtcLocaltime].t = "link"
                /\ fs[EtcLocaltime].target = FullTimezone(gen.arg)

C14_Witness ==
    /\ ret.op = "set_timezone"
    /\ gen.arg = "Invalid/Zone"
    /\ ~exists(gen.pre, ZoneFile("Invalid/Zone"))
    /\ err = "GenerateError"
    /\ exists(fs, EtcLocaltime)
    /\ fs[EtcLocaltime].target = FullTimezone("UTC")

\* the commands of a run that took effect: all but one that raised
Applied(run) ==
    IF run.err.kind = "CommandError"
    THEN SubSeq(run.issued, 1, Len(run.issued) - 1)
    ELSE run.issued
AppendedLines(run) ==
    SelectSeq(Applied(run), LAMBDA cmd : cmd.k = "append")
Occurrences(l, x) == Cardinality({i \in 1..Len(l) : l[i] = x})
AllLines == {KeyLine(o, KeyFiles[k]) : o \in Options, k \in DOMAIN KeyFiles}

\* C15: every ssh_allow_login run for an existing user issues mkdir for the
\* home and the .ssh directory only when that path is absent when the run
\* begins; once a run for the user has completed, no later run for the user
\* issues a mkdir; a run appends its key line at most once, and exactly once
\* if it completes, so authorized_keys holds each line as often as runs
\* appended it (twice after two completed runs with the same key); and a
\* non-directory at the home or the .ssh path makes the run end with a
\* Generate error without an append.
C15_SshAllowLogin ==
    /\ \A i \in 1..Len(sshruns) :
         LET run == sshruns[i]
             user == run.arg[1]
         IN user \in DOMAIN Passwd =>
              /\ \A n \in 1..Len(run.issued) :
                   run.issued[n].k = "mkdir" =>
                     /\ run.issued[n].path \in {HomeOf(user), SshOf(user)}
                     /\ ~exists(run.pre, run.issued[n].path)
              /\ CountKind(run.issued, "mkdir") <= 2
              /\ (\E q \in {HomeOf(user), SshOf(user)} :
                    exists(run.pre, q) /\ ~isdir(run.pre, q))
                   => /\ run.err.kind = "GenerateError"
                      /\ CountKind(run.issued, "append") = 0
              /\ Len(AppendedLines(run)) <= 1
              /\ run.err.kind = "none" =>
                   /\ Len(AppendedLines(run)) = 1
                   /\ AppendedLines(run)[1].path = AuthorizedOf(user)
                   /\ AppendedLines(run)[1].arg =
                        KeyLine(run.arg[3], KeyFiles[run.arg[2]])
              /\ \A j \in (i + 1)..Len(sshruns) :
                   (run.err.kind = "none" /\ sshruns[j].arg[1] = user)
                     => CountKind(sshruns[j].issued, "mkdir") = 0
    /\ \A user \in DOMAIN Passwd, line \in AllLines :
         Occurrences(IF exists(fs, AuthorizedOf(user))
                     THEN fs[AuthorizedOf(user)].lines ELSE <<>>, line)
           = Cardinality({i \in 1..Len(sshruns) :
                            /\ sshruns[i].arg[1] = user
                            /\ Len(AppendedLines(sshruns[i])) = 1
                            /\ AppendedLines(sshruns[i])[1].arg = line})

C15_Witness ==
    /\ Len(sshruns) = 2
    /\ sshruns[1].arg = sshruns[2].arg
    /\ sshruns[1].err.kind = "none"
    /\ sshruns[2].err.kind = "none"
    /\ Kinds(sshruns[1].issued) = <<"mkdir", "mkdir", "append", "chown", "chmod">>
    /\ Kinds(sshruns[2].issued) = <<"append", "chown", "chmod">>
    /\ Len(fs[AuthorizedOf("alice")].lines) = 2
    /\ fs[AuthorizedOf("alice")].lines[1] = fs[AuthorizedOf("alice")].lines[2]

\* ---- a derived context and its base
IdsOf(c, h) == {HookList(Mem, c, h)[i].id : i \in 1..Len(HookList(Mem, c, h))}
\* the entries the base build registered that the derived context took over
InheritedIds(h) == IdsOf("A", h) \cap IdsOf("L", h)
ExecutedIn(c, h, k, id) == Occurrences(EventIds(Ran(c, h, k)), id)

\* C16 (as claimed): a derived context that installs the persisted context
\* of a base build starts with an empty already-ran set, executes each
\* inherited entry of H in its first run_hooks(H), and executes it at most
\* once over all its run_hooks(H) calls.
C16_Original ==
    \A h \in Hooks :
      Derived("B") =>
        /\ rc["L"].hooks_that_already_ran = <<>>
        /\ calls["B"][h] = <<>> => ~InList(h, rc["B"].hooks_that_already_ran)
        /\ \A id \in InheritedIds(h) :
             /\ Executions("B", h, id) <= 1
             /\ (Len(calls["B"][h]) >= 1 /\ calls["B"][h][1].status = "ok")
                  => ExecutedIn("B", h, 1, id) = 1

\* C16 (amended): the base context is loaded with an empty already-ran set
\* and the derived context has none of its own before its first
\* run_hooks(H), so that call is not skipped and, if it completes, has
\* executed each inherited entry exactly once; after a run_hooks(H) that
\* completed, every later one is skipped.  A run_hooks(H) in which an entry
\* fails does not record H, and the next one is not skipped, so an
\* inherited entry can be executed more than once.
C16_Replay ==
    \A h \in Hooks :
      Derived("B") =>
        /\ rc["L"].hooks_that_already_ran = <<>>
        /\ calls["B"][h] = <<>> => ~InList(h, rc["B"].hooks_that_already_ran)
        /\ (InheritedIds(h) # {} /\ Len(calls["B"][h]) >= 1) =>
             calls["B"][h][1].status \in {"running", "ok", "failed"}
        /\ \A k \in 1..Len(calls["B"][h]) :
             /\ calls["B"][h][k].status = "ok" =>
                  /\ \A id \in InheritedIds(h) : ExecutedIn("B", h, k, id) = 1
                  /\ \A j \in (k + 1)..Len(calls["B"][h]) :
                       calls["B"][h][j].status = "skipped"
             /\ (calls["B"][h][k].status = "failed" /\ k < Len(calls["B"][h])) =>
                  calls["B"][h][k + 1].status # "skipped"

C16_Witness ==
    /\ Derived("B")
    /\ td.status = "done"
    /\ td.c = "A"
    /\ Len(tlog) >= 3
    /\ tlog[1].k = "hook" /\ tlog[1].h = "testing"
    /\ tlog[1].e \in InheritedIds("testing")
    /\ InList("testing", rc["A"].hooks_that_already_ran)
    /\ Len(calls["B"]["testing"]) = 2
    /\ calls["B"]["testing"][1].status = "ok"
    /\ ExecutedIn("B", "testing", 1, tlog[1].e) = 1
    /\ calls["B"]["testing"][2].status = "skipped"

SharesTables(c) ==
    LET b == rc[c].base_context
    IN /\ rc[c].hooks = rc[b].hooks
       /\ rc[c].substitutions = rc[b].substitutions
       /\ rc[c].flags = rc[b].flags
       /\ \A h \in Hooks : HookList(Mem, c, h) = HookList(Mem, b, h)
       /\ \A k \in UserKeys \cup {"TIMESTAMP"} :
            Get(subsH[rc[c].substitutions], k, None)
              = Get(subsH[rc[b].substitutions], k, None)
       /\ \A k \in UserKeys :
            Get(flagsH[rc[c].flags], k, None) = Get(flagsH[rc[b].flags], k, None)

\* C17: in every state after a base context was installed, the derived
\* context and its base hold the same hooks, global substitutions and flags
\* mappings, so that what is registered or set through one is there through
\* the other; the already-ran set and the local substitutions are held
\* apart: a step that changes either of them on one of the two contexts
\* leaves it as it was on the other.
C17_SharedTables ==
    /\ [](\A c \in Live : Derived(c) => SharesTables(c))
    /\ [][\A c \in Live :
            (Derived(c) /\ ~JustInstalled') =>
              LET b == rc[c].base_context
              IN /\ rc'[c].hooks_that_already_ran # rc[c].hooks_that_already_ran
                      => rc'[b].hooks_that_already_ran = rc[b].hooks_that_already_ran
                 /\ rc'[c].local_substitutions # rc[c].local_substitutions
                      => rc'[b].local_substitutions = rc[b].local_substitutions
                 /\ rc'[b].local_substitutions # rc[b].local_substitutions
                      => rc'[c].local_substitutions = rc[c].local_substitutions]_vars

C17_Witness ==
    /\ Derived("B")
    /\ ret.op = "set_flag"
    /\ ret.c = "L"
    /\ Get(flagsH[rc["B"].flags], "EXTRA", None) = "v"
    /\ \E h \in Hooks : IdsOf("L", h) \ IdsOf("A", h) # {}
    /\ Get(subsH[rc["L"].substitutions], "EXTRA", None) = "v"
    /\ Get(rc["B"].local_substitutions, "EXTRA", None) = "w"
    /\ Get(rc["L"].local_substitutions, "EXTRA", None) = None
    /\ rc["B"].hooks_that_already_ran = <<"testing">>
    /\ rc["L"].hooks_that_already_ran = <<>>

\* ---- one run of a hook
\* whether the k-th run_hooks(h) on c is the call in progress
InProgress(c, h, k) ==
    /\ frame.hook = h
    /\ frame.c = c
    /\ k = Len(calls[c][h])

\* C18: every run_hooks(H) executes the entries of H in the order of their
\* registration, without a gap or a repetition; the process is in the
\* systems directory when each entry starts, wherever the entry before it
\* left it; and H is in the already-ran set only when a run_hooks(H) has
\* executed the last entry of the list, never while one is in its loop.
C18_RunOrder ==
    \A c \in Live, h \in Hooks :
      /\ \A k \in 1..Len(calls[c][h]) :
           /\ Len(Ran(c, h, k)) <= calls[c][h][k].n0
           /\ EventIds(Ran(c, h, k)) =
                SubSeq(EntryIds(HookList(Mem, c, h)), 1, Len(Ran(c, h, k)))
           /\ \A i, j \in 1..Len(Ran(c, h, k)) :
                i < j => Ran(c, h, k)[i].e < Ran(c, h, k)[j].e
           /\ \A i \in 1..Len(Ran(c, h, k)) : Ran(c, h, k)[i].cwd = SystemsDir
           /\ InProgress(c, h, k) => ~InList(h, rc[c].hooks_that_already_ran)
      /\ (c \in DOMAIN rc /\ InList(h, rc[c].hooks_that_already_ran)) =>
           \E k \in 1..Len(calls[c][h]) :
             /\ calls[c][h][k].status = "ok"
             /\ Len(Ran(c, h, k)) = calls[c][h][k].n0
             /\ ~InProgress(c, h, k)

C18_Witness ==
    \E c \in Live, h \in Hooks :
      /\ Len(calls[c][h]) >= 1
      /\ InProgress(c, h, 1)
      /\ Len(HookList(Mem, c, h)) = 2
      /\ Len(Ran(c, h, 1)) = 2
      /\ Ran(c, h, 1)[2].cwd = SystemsDir
      /\ cwd = Elsewhere
      /\ ~InList(h, rc[c].hooks_that_already_ran)

\* C19: a run_hooks(H) in which an entry fails is over at that entry: the
\* entries after it are not executed and H is not added to the already-ran
\* set; the next run_hooks(H) on the context is not skipped, begins with
\* the first entry of H again and so executes the entries that had completed
\* a second time.
C19_FailedRun ==
    \A c \in Live, h \in Hooks :
      \A k \in 1..Len(calls[c][h]) :
        calls[c][h][k].status = "failed" =>
          /\ ~InProgress(c, h, k)
          /\ Len(Ran(c, h, k)) >= 1
          /\ EventIds(Ran(c, h, k)) =
               SubSeq(EntryIds(HookList(Mem, c, h)), 1, Len(Ran(c, h, k)))
          /\ (\A j \in (k + 1)..Len(calls[c][h]) : calls[c][h][j].status # "ok")
               => ~InList(h, rc[c].hooks_that_already_ran)
          /\ k < Len(calls[c][h]) =>
               LET next == calls[c][h][k + 1]
               IN /\ next.status \in {"running", "ok", "failed"}
                  /\ next.ran # <<>> =>
                       next.ran[1].e = HookList(Mem, c, h)[1].id
                  /\ next.status = "ok" =>
                       \A i \in 1..Len(Ran(c, h, k)) :
                         Executions(c, h, Ran(c, h, k)[i].e) >= 2

C19_Witness ==
    \E c \in Live, h \in Hooks :
      /\ Len(calls[c][h]) = 2
      /\ calls[c][h][1].status = "failed"
      /\ Len(Ran(c, h, 1)) = 2
      /\ calls[c][h][1].n0 = 2
      /\ calls[c][h][2].status = "ok"
      /\ Len(Ran(c, h, 2)) = 2
      /\ Ran(c, h, 2)[1].e = Ran(c, h, 1)[1].e

\* C20 (as claimed): when pickle() fails while writing the artifact, the
\* context has the ctx handle and the already-ran set it had before the
\* call.
C20_Original ==
    [][(ret'.op = "pickle" /\ ~ret'.ok) =>
         /\ rc'[ret'.c].ctx = rc[ret'.c].ctx
         /\ rc'[ret'.c].hooks_that_already_ran =
              rc[ret'.c].hooks_that_already_ran]_vars

====
